---------------------------- MODULE Spec2Model ----------------------------
(***************************************************************************)
(* Model of the CSV import workflow of gnc-csv-import.c: the import driver *)
(* gnc_file_csv_import, the preview dialog GncCsvPreview and its signal    *)
(* handlers.  The dialog is event driven: a user action changes a widget,  *)
(* the toolkit emits the widget's signal, and the connected handler runs.  *)
(* A handler that changes a widget itself makes the toolkit call a handler *)
(* again before it returns; since every such change is the last statement  *)
(* of the handler (it returns right after), the nested calls are kept in   *)
(* the sequence `signals` and run one handler invocation per step.  The    *)
(* dialog is idle, waiting for the user, when `signals` is empty.          *)
(*                                                                         *)
(* The module also models the currency selector of gnc-currency-edit.c, a  *)
(* widget of its own with its own specification, CurrencySpec.             *)
(***************************************************************************)
EXTENDS Integers, Sequences, FiniteSets, TLC

(***************************************************************************)
(* Bounds of the model.                                                    *)
(***************************************************************************)
MaxCols == 2          \* most columns a parse produces
MaxRows == 2          \* most lines of the imported file
MaxEvents == 2        \* most configuration changes the user makes in a run
MaxCurrencies == 3    \* most commodities of the ISO namespace

(***************************************************************************)
(* Program constants.                                                      *)
(***************************************************************************)
SEP_NUM_OF_TYPES == 6
GNC_CSV_NUM_COL_TYPES == 4
GNC_CSV_NONE == 0
GNC_CSV_DATE == 1
GNC_CSV_DESCRIPTION == 2
GNC_CSV_AMOUNT == 3

stock_separator_characters == <<" ", "\t", ",", ":", ";", "-">>
column_type_strs == <<"None", "Date", "Description", "Amount">>

\* Blank is the encoding parse_data holds when the encoding of the file could
\* not be guessed; Encodings are the encodings the selector offers.
Blank == "blank"
Encodings == {"UTF-8", "ISO-8859-1"}
DefaultEncoding == "UTF-8"
\* The indices of the entries of the date-format selector.
DateFormats == {0, 1}
\* The stock check button the user toggles (comma).
UserButtons == {3}
\* The types the user selects in the combo of a column.
UserTypes == {"None", "Date", "Amount"}
\* Texts the user can type in the custom separator entry.
CustomTexts == {"", "|", "#"}
\* A line of the file is described by the date format under which its date
\* parses: <<fmt>>.  The model chooses it when gnc_parse_to_trans first
\* reads the line; until then the line is Unread.
Unread == <<>>
Files == {[i \in 1..n |-> Unread] : n \in {MaxRows}}

VARIABLES
  file,                     \* the file on disk (one entry per line)
  pc,                       \* position in gnc_file_csv_import
  pd_state,                 \* lifetime of parse_data: none, alive, freed
  encoding,                 \* parse_data->encoding
  separators,               \* separators stored in parse_data->options
  column_types,             \* parse_data->column_types
  date_format,              \* parse_data->date_format
  orig_lines,               \* parse_data->orig_lines (line numbers)
  error_lines,              \* parse_data->error_lines
  transactions,             \* parse_data->transactions
  pv_state,                 \* lifetime of preview: none, alive, freed
  sep_buttons,              \* active state of preview->sep_buttons[i]
  custom_cbutton,           \* active state of preview->custom_cbutton
  custom_entry,             \* text of preview->custom_entry
  encselector,              \* encoding shown by preview->encselector
  date_format_combo,        \* active index of preview->date_format_combo
  ctstore,                  \* strings shown in preview->ctreeview
  store,                    \* rows shown in preview->treeview
  encoding_selected_called, \* preview->encoding_selected_called
  previewing_errors,        \* preview->previewing_errors
  code_encoding_calls,      \* preview->code_encoding_calls
  approved,                 \* preview->approved
  signals,                  \* handler invocations the toolkit still owes
  parse_known,              \* outcomes of gnc_csv_parse seen so far
  conv_known,               \* outcomes of gnc_csv_convert_encoding seen
  user_canceled,            \* local of gnc_file_csv_import
  importer_gui,             \* calls made on the matcher session
  hist,                     \* observations used to state the properties
  commodities,              \* the commodity table and the locale's default
  gce,                      \* the GNCCurrencyEdit widget: list and selection
  ce_hist                   \* the last call on the currency selector

workflowVars == <<file, pc, pd_state, encoding, separators, column_types, date_format,
          orig_lines, error_lines, transactions, pv_state, sep_buttons,
          custom_cbutton, custom_entry, encselector, date_format_combo,
          ctstore, store, encoding_selected_called, previewing_errors,
          code_encoding_calls, approved, signals, parse_known, conv_known,
          user_canceled, importer_gui, hist>>

ceVars == <<commodities, gce, ce_hist>>

vars == <<workflowVars, ceVars>>

pdVars == <<encoding, separators, column_types, date_format, orig_lines,
            error_lines, transactions>>
sepVars == <<sep_buttons, custom_cbutton, custom_entry>>
viewVars == <<encselector, date_format_combo, ctstore, store,
              encoding_selected_called, previewing_errors,
              code_encoding_calls, approved>>
parserVars == <<parse_known, conv_known>>

(***************************************************************************)
(* Helpers.                                                                *)
(***************************************************************************)
Range(s) == {s[i] : i \in 1..Len(s)}

RECURSIVE SeqFilter(_, _)
\* the subsequence of s whose elements are in the set keep
SeqFilter(s, keep) ==
  IF s = <<>> THEN <<>>
  ELSE IF Head(s) \in keep THEN <<Head(s)>> \o SeqFilter(Tail(s), keep)
       ELSE SeqFilter(Tail(s), keep)

\* What the observations start from, and what a new user action resets.
NoTrigger == [kind |-> "none", widget |-> "none", arg |-> 0]
HistInit ==
  [nevents |-> 0, trigger |-> NoTrigger, failed |-> FALSE, pre |-> <<>>,
   reset |-> FALSE, ok_initial |-> FALSE, parsed |-> FALSE, built |-> FALSE,
   prompted |-> FALSE, load_error |-> "none", cancel_trans |-> <<>>,
   canceled_errors |-> FALSE, load_reported |-> FALSE, account |-> "none"]

(***************************************************************************)
(* The parser collaborator (gnc-csv-model).  Its results are functions of  *)
(* the file and of the configuration it is given, so an outcome seen once  *)
(* is the outcome of every later call with the same configuration; the     *)
(* outcome of a configuration not tried before is chosen freely.  The      *)
(* outcome of a parse is 0 for a ParseError and the number of columns      *)
(* otherwise.                                                              *)
(***************************************************************************)
DefaultSeparators == {","}

ParseOutcomes(enc, seps) ==
  LET known == {r \in parse_known : r.enc = enc /\ r.seps = seps}
  IN  IF known # {} THEN {r.out : r \in known} ELSE {0, MaxCols - 1, MaxCols}

ParseRecord(enc, seps, out) == [enc |-> enc, seps |-> seps, out |-> out]

ConvOutcomes(enc) ==
  LET known == {r \in conv_known : r.enc = enc}
  IN  IF known # {} THEN {r.ok : r \in known} ELSE BOOLEAN

ConvRecord(enc, ok) == [enc |-> enc, ok |-> ok]

\* Column types the parser may guess: no type at all, or Date, Amount and
\* Description for the first columns.  Both respect the invariant that a
\* non-None type is carried by at most one column.
GuessedColumnTypes(n) ==
  {[i \in 1..n |-> GNC_CSV_NONE],
   [i \in 1..n |-> IF i <= 3
                   THEN <<GNC_CSV_DATE, GNC_CSV_AMOUNT, GNC_CSV_DESCRIPTION>>[i]
                   ELSE GNC_CSV_NONE]}

\* A reparse that does not guess keeps the types of the columns that still
\* exist and gives None to new columns.
KeptColumnTypes(types, n) ==
  [i \in 1..n |-> IF i <= Len(types) THEN types[i] ELSE GNC_CSV_NONE]

AllLines == [i \in 1..Len(file) |-> i]

\* A row becomes a transaction when a Date and an Amount column are
\* assigned and its date parses under the date format.
RowParses(line, types, fmt) ==
  /\ GNC_CSV_DATE \in Range(types)
  /\ GNC_CSV_AMOUNT \in Range(types)
  /\ file'[line] = <<fmt>>

\* gnc_parse_to_trans: the rows it works on, its transactions and its
\* error lines.
TransRows(redo_errors) == IF redo_errors THEN error_lines ELSE orig_lines

\* The file after gnc_parse_to_trans has read the rows it works on.
ReadFiles(redo_errors) ==
  LET unread == {i \in Range(TransRows(redo_errors)) : file[i] = Unread}
  IN  {[i \in 1..Len(file) |-> IF i \in unread THEN <<g[i]>> ELSE file[i]] :
         g \in [unread -> DateFormats]}

GoodRows(redo_errors, types, fmt) ==
  {l \in Range(TransRows(redo_errors)) : RowParses(l, types, fmt)}

ParseToTransErrors(redo_errors, types, fmt) ==
  SeqFilter(TransRows(redo_errors),
            Range(TransRows(redo_errors)) \ GoodRows(redo_errors, types, fmt))

ParseToTransTransactions(redo_errors, types, fmt) ==
  IF redo_errors
  THEN SeqFilter(AllLines, Range(transactions) \cup GoodRows(TRUE, types, fmt))
  ELSE SeqFilter(orig_lines, GoodRows(FALSE, types, fmt))

(***************************************************************************)
(* Pure parts of the handlers.                                             *)
(***************************************************************************)
\* A variant that adds the custom text whatever the state of its button.
CheckedSeparatorsAnyText(buttons, cbutton, entry) ==
  {stock_separator_characters[i] : i \in {j \in 1..SEP_NUM_OF_TYPES : buttons[j]}}
  \cup (IF entry # "" THEN {entry} ELSE {})

\* A variant that adds the custom text of a checked button even when blank.
CheckedSeparatorsBlank(buttons, cbutton, entry) ==
  {stock_separator_characters[i] : i \in {j \in 1..SEP_NUM_OF_TYPES : buttons[j]}}
  \cup (IF cbutton THEN {entry} ELSE {})

\* sep_button_clicked, the list checked_separators it builds.
CheckedSeparators(buttons, cbutton, entry) ==
  {stock_separator_characters[i] : i \in {j \in 1..SEP_NUM_OF_TYPES : buttons[j]}}
  \cup (IF cbutton /\ entry # "" THEN {entry} ELSE {})

\* A variant that leaves the other columns alone.
ColumnTypeEditedKeep(st, c, new_text) ==
  [i \in 1..Len(st) |-> IF i # c THEN st[i] ELSE new_text]

\* column_type_edited on column c with the text the user selected.
ColumnTypeEdited(st, c, new_text) ==
  [i \in 1..Len(st) |->
     IF i # c
     THEN IF st[i] = new_text THEN column_type_strs[GNC_CSV_NONE + 1] ELSE st[i]
     ELSE new_text]

\* A variant of ok_button_clicked that leaves the column types as parsed.
OkColumnTypesKeep(types, st) == types

\* ok_button_clicked: the first type whose string matches the contents.
TypeOfString(contents) ==
  CHOOSE type \in 0..(GNC_CSV_NUM_COL_TYPES - 1) :
    /\ column_type_strs[type + 1] = contents
    /\ \A u \in 0..(type - 1) : column_type_strs[u + 1] # contents

OkColumnTypes(types, st) == [i \in 1..Len(types) |-> TypeOfString(st[i])]

\* A variant of cancel_button_clicked that takes the displayed types over.
CancelTakesDisplay(types, st) == [i \in 1..Len(types) |-> TypeOfString(st[i])]

\* cancel_button_clicked hides the dialog and leaves the column types of the
\* parse data as they are.
CancelColumnTypes(types, st) == types

\* gnc_csv_preview_treeview, the strings of the column type row.
TypeStrings(types) == [i \in 1..Len(types) |-> column_type_strs[types[i] + 1]]

\* A variant that shows every row in the error preview as well.
DisplayedAllRows(errors_only, lines, errs) == lines

\* gnc_csv_preview_treeview, the rows of the data view.
DisplayedRows(errors_only, lines, errs) == IF errors_only THEN errs ELSE lines

\* go_charmap_sel_set_encoding changes the selector when the encoding is one
\* it offers and is not the one already shown.
SelectorChanges(sel, enc) == enc \in Encodings /\ enc # sel

\* A variant that stops only when both conditions hold.
LoopNextAnd(errs, canceled) ==
  IF ~((errs = <<>>) /\ canceled) THEN "errors" ELSE "handoff"

\* The loop condition of gnc_file_csv_import.
LoopNext(errs, canceled) ==
  IF ~((errs = <<>>) \/ canceled) THEN "errors" ELSE "handoff"

\* A variant that leaves the flag as the previous preview left it.
ApprovedKept(flag) == flag

\* gnc_csv_preview and gnc_csv_preview_errors clear preview->approved before
\* the dialog runs.
ApprovedAtOpen(flag) == FALSE

\* A variant that leaves the date format of the parse data as it is.
DateFormatIgnored(active) == date_format

\* date_format_selected: the date format stored in the parse data when the
\* selector's active index changes.
DateFormatSelected(active) == active

\* A variant that leaves the object allocated.
NotFreed(state) == state

\* gnc_csv_parse_data_free and gnc_csv_preview_free: an object that is alive
\* becomes freed; freeing anything else is invalid.
Freed(state) == IF state = "alive" THEN "freed" ELSE "invalid"

\* A variant that goes on whatever the account prompt returned.
AccountAlways(account) == TRUE

\* gnc_file_csv_import goes on after gnc_import_select_account when the
\* account is not NULL.
AccountChosen(account) == account # "NULL"

\* A variant that reports approval whatever the user did.
PreviewResultZero(ok) == 0

\* gnc_csv_preview and gnc_csv_preview_errors return 0 when the user
\* approved and 1 when the user did not.
PreviewResult(ok) == IF ok THEN 0 ELSE 1

\* A variant that goes on after every load error.
IsFatalNever(result) == FALSE

\* A variant that gives up on every load error.
IsFatalAnyError(result) == result # "ok"

\* gnc_file_csv_import gives up on a load error when it is a file open error.
IsFatal(result) == result = "open_err"

\* The calls gnc_file_csv_import makes on the matcher session: the
\* transactions it adds, in the order of the loop, and whether it runs or
\* deletes the session.
Call(name, arg) == [call |-> name, arg |-> arg]

\* Variants of the loop that adds the transactions: one that skips the first
\* element of the list, one that walks the list backwards.
AddedTail(trans) == IF trans = <<>> THEN <<>> ELSE Tail(trans)

AddedReversed(trans) == [i \in 1..Len(trans) |-> trans[Len(trans) + 1 - i]]

AddedTransactions(trans) == trans

\* A variant that runs the session even when it is empty.
LastCallRun(trans) == "run"

LastCall(trans) == IF trans # <<>> THEN "run" ELSE "delete"

MatcherCalls(trans) ==
  <<Call("new", 0)>>
  \o [i \in 1..Len(AddedTransactions(trans)) |->
        Call("add", AddedTransactions(trans)[i])]
  \o <<Call(LastCall(trans), 0)>>

\* A variant of the loop that builds every row again.
RedoAllRows == FALSE

\* The redo_errors argument of the gnc_parse_to_trans call in the loop.
RedoErrors == TRUE

\* A handler invocation: the handler, the widget that changed and, for a
\* stock check button its index, for the encoding selector the encoding.
SepSignal(w, i) == [handler |-> "sep", widget |-> w, arg |-> i]
EncSignal(e) == [handler |-> "enc", widget |-> "encselector", arg |-> e]


(***************************************************************************)
(* Initial state: nothing allocated, any file on disk.                     *)
(***************************************************************************)
WorkflowInit ==
  /\ file \in Files
  /\ pc = "start"
  /\ pd_state = "none"
  /\ encoding = Blank
  /\ separators = {}
  /\ column_types = <<>>
  /\ date_format = 0
  /\ orig_lines = <<>>
  /\ error_lines = <<>>
  /\ transactions = <<>>
  /\ pv_state = "none"
  /\ sep_buttons = [i \in 1..SEP_NUM_OF_TYPES |-> FALSE]
  /\ custom_cbutton = FALSE
  /\ custom_entry = ""
  /\ encselector = DefaultEncoding
  /\ date_format_combo = 0
  /\ ctstore = <<>>
  /\ store = <<>>
  /\ encoding_selected_called = FALSE
  /\ previewing_errors = FALSE
  /\ code_encoding_calls = 0
  /\ approved = FALSE
  /\ signals = <<>>
  /\ parse_known = {}
  /\ conv_known = {}
  /\ user_canceled = FALSE
  /\ importer_gui = <<>>
  /\ hist = HistInit

\* A commodity is its mnemonic and its full name, both strings (sequences of
\* characters); NullCommodity stands for the NULL pointer.
NullCommodity == [mnemonic |-> <<>>, fullname |-> <<>>]

\* What ce_hist holds before any call on the currency selector.
NoCall ==
  [op |-> "none", arg |-> NullCommodity, pre_active |-> 0,
   result |-> NullCommodity, looked_up |-> FALSE, lookup_arg |-> <<>>,
   used_default |-> FALSE, warned |-> FALSE, built |-> <<>>,
   prev |-> [op |-> "none", arg |-> NullCommodity, pre_active |-> 0]]

\* No currency selector exists while a file is imported.
NoCurrencyEdit ==
  /\ commodities = [iso |-> {}, locale_default |-> NullCommodity]
  /\ gce = [state |-> "none", model |-> <<>>, active |-> 0]
  /\ ce_hist = NoCall

Init == WorkflowInit /\ NoCurrencyEdit

(***************************************************************************)
(* gnc_csv_preview_treeview: redraw both tree views from parse_data, set   *)
(* the encoding selector and read the date format back.  The selector's    *)
(* callback runs twice when the selector changes; code_encoding_calls was  *)
(* just set to 2, so both calls only decrement it.  When the selector does *)
(* not change no callback runs and the counter stays 2.                    *)
(***************************************************************************)
PreviewTreeview(types, lines, errs, enc, errors_only) ==
  /\ ctstore' = TypeStrings(types)
  /\ store' = DisplayedRows(errors_only, lines, errs)
  /\ encselector' = IF SelectorChanges(encselector, enc) THEN enc ELSE encselector
  /\ code_encoding_calls' = IF SelectorChanges(encselector, enc) THEN 0 ELSE 2
  /\ date_format' = date_format_combo

(***************************************************************************)
(* gnc_file_csv_import.                                                    *)
(***************************************************************************)
\* gnc_file_dialog returns a file name or NULL.
SelectFile ==
  /\ pc = "start"
  /\ \E selected \in BOOLEAN : pc' = IF selected THEN "load" ELSE "done"
  /\ UNCHANGED <<file, pd_state, pdVars, pv_state, sepVars, viewVars, signals,
                 parserVars, user_canceled, importer_gui, hist>>
  /\ UNCHANGED ceVars

\* gnc_csv_new_parse_data and gnc_csv_load_file.
LoadFile ==
  /\ pc = "load"
  /\ \E result \in {"ok", "open_err", "guess_err"} :
       /\ hist' = [hist EXCEPT !.load_error = result,
                                !.load_reported = (result # "ok")]
       /\ IF IsFatal(result)
          THEN \* allocated by gnc_csv_new_parse_data, freed at once
               /\ pd_state' = Freed("alive")
               /\ pc' = "done"
               /\ UNCHANGED <<encoding, separators, conv_known>>
          ELSE /\ pd_state' = "alive"
               /\ separators' = DefaultSeparators
               /\ pc' = "parse"
               /\ IF result = "ok"
                  THEN \E enc \in Encodings :
                         /\ encoding' = enc
                         /\ conv_known' = {ConvRecord(enc, TRUE)}
                  ELSE /\ encoding' = Blank
                       /\ UNCHANGED conv_known
  /\ UNCHANGED <<file, column_types, date_format, orig_lines, error_lines,
                 transactions, pv_state, sepVars, viewVars, signals,
                 parse_known, user_canceled, importer_gui>>
  /\ UNCHANGED ceVars

\* The first gnc_csv_parse, which guesses the column types.  A ParseError
\* is reported and the import goes on with a blank display.
InitialParse ==
  /\ pc = "parse"
  /\ \E out \in ParseOutcomes(encoding, separators) :
       /\ parse_known' = parse_known \cup {ParseRecord(encoding, separators, out)}
       /\ IF out = 0
          THEN UNCHANGED <<column_types, orig_lines>>
          ELSE /\ column_types' \in GuessedColumnTypes(out)
               /\ orig_lines' = AllLines
  /\ pc' = "preview_new"
  /\ hist' = [hist EXCEPT !.parsed = TRUE]
  /\ UNCHANGED <<file, pd_state, encoding, separators, date_format, error_lines,
                 transactions, pv_state, sepVars, viewVars, signals, conv_known,
                 user_canceled, importer_gui>>
  /\ UNCHANGED ceVars

\* gnc_csv_preview_new and gnc_csv_preview up to gtk_dialog_run.
OpenPreview ==
  /\ pc = "preview_new"
  /\ pv_state' = "alive"
  /\ sep_buttons' = [i \in 1..SEP_NUM_OF_TYPES |->
                       stock_separator_characters[i] \in DefaultSeparators]
  /\ custom_cbutton' = FALSE
  /\ custom_entry' = ""
  /\ date_format_combo' = 0
  /\ encoding_selected_called' = FALSE
  /\ previewing_errors' = FALSE
  /\ approved' = ApprovedAtOpen(approved)
  /\ PreviewTreeview(column_types, orig_lines, error_lines, encoding, FALSE)
  /\ pc' = "preview"
  /\ UNCHANGED <<file, pd_state, encoding, separators, column_types, orig_lines,
                 error_lines, transactions, signals, parserVars, user_canceled,
                 importer_gui, hist>>
  /\ UNCHANGED ceVars

\* The rest of gnc_file_csv_import once the transactions are built: the loop
\* test, then either gnc_csv_preview_errors up to its gtk_dialog_run, or the
\* hand-off to the matcher and the frees.  types are the column types of
\* parse_data at this point and ok tells whether "OK" closed the dialog.
Continue(types, errs, trans, canceled, ok) ==
  /\ column_types' = types
  /\ IF LoopNext(errs, canceled) = "errors"
     THEN /\ previewing_errors' = TRUE
          /\ approved' = ApprovedAtOpen(ok)
          /\ PreviewTreeview(types, orig_lines, errs, encoding, TRUE)
          /\ pc' = "errors_run"
          /\ UNCHANGED <<pd_state, pv_state, importer_gui>>
     ELSE /\ importer_gui' = MatcherCalls(trans)
          /\ pv_state' = Freed(pv_state)
          /\ pd_state' = Freed(pd_state)
          /\ pc' = "done"
          /\ approved' = ok
          /\ UNCHANGED <<previewing_errors, ctstore, store, encselector,
                         code_encoding_calls, date_format>>
  /\ UNCHANGED <<encoding, separators, orig_lines, sepVars, date_format_combo,
                 encoding_selected_called, parserVars>>

\* gnc_import_select_account, the first gnc_parse_to_trans and what follows.
SelectAccount ==
  /\ pc = "account"
  /\ \E account \in {"NULL", "account"} :
       IF ~AccountChosen(account)
       THEN /\ pc' = "done"
            /\ pv_state' = Freed(pv_state)
            /\ pd_state' = Freed(pd_state)
            /\ hist' = [hist EXCEPT !.prompted = TRUE, !.account = account]
            /\ UNCHANGED <<file, pdVars, sepVars, viewVars, parserVars,
                           importer_gui>>
       ELSE /\ file' \in ReadFiles(FALSE)
            /\ error_lines' = ParseToTransErrors(FALSE, column_types, date_format)
            /\ transactions' = ParseToTransTransactions(FALSE, column_types, date_format)
            /\ Continue(column_types, error_lines', transactions',
                        user_canceled, approved)
            /\ hist' = [hist EXCEPT !.prompted = TRUE, !.built = TRUE,
                                     !.account = account]
  /\ UNCHANGED <<signals, user_canceled>>
  /\ UNCHANGED ceVars

(***************************************************************************)
(* The preview dialog: what the user does while gtk_dialog_run waits.      *)
(***************************************************************************)
DialogRuns == pc \in {"preview", "errors_run"}
Idle == DialogRuns /\ signals = <<>>
CanConfigure == Idle /\ hist.nevents < MaxEvents

Snapshot ==
  [sep_buttons |-> sep_buttons, custom_cbutton |-> custom_cbutton,
   custom_entry |-> custom_entry, encselector |-> encselector,
   date_format_combo |-> date_format_combo, ctstore |-> ctstore]

Begin(kind, widget, arg) ==
  [hist EXCEPT !.nevents = @ + 1,
               !.trigger = [kind |-> kind, widget |-> widget, arg |-> arg],
               !.failed = FALSE, !.pre = Snapshot, !.reset = FALSE]

\* The user toggles one of the stock separator check buttons.
UserToggleSep ==
  /\ CanConfigure
  /\ \E i \in UserButtons :
       /\ sep_buttons' = [sep_buttons EXCEPT ![i] = ~@]
       /\ signals' = <<SepSignal("sep_button", i)>>
       /\ hist' = Begin("sep", "sep_button", i)
  /\ UNCHANGED <<file, pc, pd_state, pdVars, pv_state, custom_cbutton,
                 custom_entry, viewVars, parserVars, user_canceled, importer_gui>>
  /\ UNCHANGED ceVars

\* The user toggles the custom separator check button.
UserToggleCustom ==
  /\ CanConfigure
  /\ custom_cbutton' = ~custom_cbutton
  /\ signals' = <<SepSignal("custom_cbutton", 0)>>
  /\ hist' = Begin("sep", "custom_cbutton", 0)
  /\ UNCHANGED <<file, pc, pd_state, pdVars, pv_state, sep_buttons,
                 custom_entry, viewVars, parserVars, user_canceled, importer_gui>>
  /\ UNCHANGED ceVars

\* The user changes the text of the custom separator entry.
UserEditCustom ==
  /\ CanConfigure
  /\ \E text \in CustomTexts \ {custom_entry} : custom_entry' = text
  /\ signals' = <<SepSignal("custom_entry", 0)>>
  /\ hist' = Begin("sep", "custom_entry", 0)
  /\ UNCHANGED <<file, pc, pd_state, pdVars, pv_state, sep_buttons,
                 custom_cbutton, viewVars, parserVars, user_canceled, importer_gui>>
  /\ UNCHANGED ceVars

\* The user selects another encoding: the selector shows it and its
\* callback is called twice.
UserSelectEncoding ==
  /\ CanConfigure
  /\ \E enc \in Encodings \ {encselector} :
       /\ encselector' = enc
       /\ signals' = <<EncSignal(enc), EncSignal(enc)>>
  /\ hist' = Begin("enc", "encselector", 0)
  /\ UNCHANGED <<file, pc, pd_state, pdVars, pv_state, sepVars,
                 date_format_combo, ctstore, store, encoding_selected_called,
                 previewing_errors, code_encoding_calls, approved, parserVars,
                 user_canceled, importer_gui>>
  /\ UNCHANGED ceVars

\* The user selects another date format; date_format_selected.
UserSelectDateFormat ==
  /\ CanConfigure
  /\ \E fmt \in DateFormats \ {date_format_combo} :
       /\ date_format_combo' = fmt
       /\ date_format' = DateFormatSelected(fmt)
  /\ hist' = Begin("date", "date_format_combo", 0)
  /\ UNCHANGED <<file, pc, pd_state, encoding, separators, column_types,
                 orig_lines, error_lines, transactions, pv_state, sepVars,
                 encselector, ctstore, store, encoding_selected_called,
                 previewing_errors, code_encoding_calls, approved, signals,
                 parserVars, user_canceled, importer_gui>>
  /\ UNCHANGED ceVars

\* The user selects a type in the combo of a column; column_type_edited.
UserEditColumnType ==
  /\ CanConfigure
  /\ \E c \in 1..Len(ctstore), new_text \in UserTypes :
       /\ new_text # ctstore[c]
       /\ ctstore' = ColumnTypeEdited(ctstore, c, new_text)
       /\ hist' = [Begin("coltype", "ctreeview", c) EXCEPT
                     !.reset = \E i \in 1..Len(ctstore) :
                                 i # c /\ ctstore'[i] # ctstore[i]]
  /\ UNCHANGED <<file, pc, pd_state, pdVars, pv_state, sepVars, encselector,
                 date_format_combo, store, encoding_selected_called,
                 previewing_errors, code_encoding_calls, approved, signals,
                 parserVars, user_canceled, importer_gui>>
  /\ UNCHANGED ceVars

Settled ==
  [hist EXCEPT !.trigger = NoTrigger, !.pre = <<>>, !.failed = FALSE,
               !.reset = FALSE]

\* gnc_file_csv_import after gnc_csv_preview returned: the account prompt
\* opens, or everything is freed.
AfterPreview(result) ==
  IF result = 0
  THEN /\ pc' = "account"
       /\ UNCHANGED <<pd_state, encoding, separators, date_format, orig_lines,
                      pv_state, sepVars, encselector, date_format_combo,
                      ctstore, store, encoding_selected_called,
                      previewing_errors, code_encoding_calls, parserVars>>
  ELSE /\ pc' = "done"
       /\ pv_state' = Freed(pv_state)
       /\ pd_state' = Freed(pd_state)
       /\ UNCHANGED <<encoding, separators, date_format, orig_lines,
                      sepVars, encselector, date_format_combo, ctstore, store,
                      encoding_selected_called, previewing_errors,
                      code_encoding_calls, parserVars>>

\* "OK" in the first preview: ok_button_clicked, then gnc_csv_preview
\* returns.
UserClickOk ==
  /\ Idle
  /\ pc = "preview"
  /\ column_types' = OkColumnTypes(column_types, ctstore)
  /\ approved' = TRUE
  /\ AfterPreview(PreviewResult(approved'))
  /\ hist' = [Settled EXCEPT !.ok_initial = TRUE]
  /\ UNCHANGED <<file, error_lines, transactions, signals, user_canceled,
                 importer_gui>>
  /\ UNCHANGED ceVars

\* "Cancel" in the first preview (closing the window ends the dialog the
\* same way): cancel_button_clicked, then gnc_csv_preview returns.
UserClickCancel ==
  /\ Idle
  /\ pc = "preview"
  /\ column_types' = CancelColumnTypes(column_types, ctstore)
  /\ AfterPreview(PreviewResult(approved))
  /\ hist' = Settled
  /\ UNCHANGED <<file, error_lines, transactions, approved,
                 signals, user_canceled, importer_gui>>
  /\ UNCHANGED ceVars

\* "OK" in the error preview: ok_button_clicked, then gnc_csv_preview_errors
\* returns, the error lines are redone and the loop goes on.
UserClickOkErrors ==
  /\ Idle
  /\ pc = "errors_run"
  /\ LET types == OkColumnTypes(column_types, ctstore)
     IN  /\ user_canceled' = (PreviewResult(TRUE) # 0)
         /\ file' \in ReadFiles(RedoErrors)
         /\ error_lines' = ParseToTransErrors(RedoErrors, types, date_format)
         /\ transactions' = ParseToTransTransactions(RedoErrors, types, date_format)
         /\ Continue(types, error_lines', transactions', user_canceled', TRUE)
  /\ hist' = Settled
  /\ UNCHANGED signals
  /\ UNCHANGED ceVars

\* "Cancel" in the error preview: cancel_button_clicked, then
\* gnc_csv_preview_errors returns, the error lines are redone once more and
\* the loop goes on.
UserClickCancelErrors ==
  /\ Idle
  /\ pc = "errors_run"
  /\ LET types == CancelColumnTypes(column_types, ctstore)
     IN  /\ user_canceled' = (PreviewResult(approved) # 0)
         /\ file' \in ReadFiles(RedoErrors)
         /\ error_lines' = ParseToTransErrors(RedoErrors, types, date_format)
         /\ transactions' = ParseToTransTransactions(RedoErrors, types, date_format)
         /\ Continue(types, error_lines', transactions', user_canceled', approved)
  /\ hist' = [Settled EXCEPT !.canceled_errors = TRUE,
                             !.cancel_trans = transactions]
  /\ UNCHANGED signals
  /\ UNCHANGED ceVars

(***************************************************************************)
(* The handlers the toolkit calls.                                         *)
(***************************************************************************)
\* A variant that leaves the check button as the user set it.
StaysToggled(active) == active

\* What sep_button_clicked sets a check button to after a failed parse.
ToggledBack(active) == ~active

\* What sep_button_clicked sets the custom entry to after a failed parse.
ErasedText(text) == ""

\* One invocation of sep_button_clicked for the widget that changed.
SepButtonClicked ==
  /\ DialogRuns
  /\ signals # <<>>
  /\ Head(signals).handler = "sep"
  /\ LET widget == Head(signals).widget
         index == Head(signals).arg
         seps == CheckedSeparators(sep_buttons, custom_cbutton, custom_entry)
     IN
     /\ separators' = seps
     /\ \E out \in ParseOutcomes(encoding, seps) :
          /\ parse_known' = parse_known \cup {ParseRecord(encoding, seps, out)}
          /\ IF out = 0
             THEN \* the parse failed: undo the change of the widget, which
                  \* makes the toolkit call this handler again
                  /\ IF widget = "custom_entry"
                     THEN /\ custom_entry' = ErasedText(custom_entry)
                          /\ signals' = IF custom_entry' # custom_entry
                                        THEN <<SepSignal(widget, index)>> \o Tail(signals)
                                        ELSE Tail(signals)
                          /\ UNCHANGED <<sep_buttons, custom_cbutton>>
                     ELSE IF widget = "custom_cbutton"
                     THEN /\ custom_cbutton' = ToggledBack(custom_cbutton)
                          /\ signals' = IF custom_cbutton' # custom_cbutton
                                        THEN <<SepSignal(widget, index)>> \o Tail(signals)
                                        ELSE Tail(signals)
                          /\ UNCHANGED <<sep_buttons, custom_entry>>
                     ELSE /\ sep_buttons' = [sep_buttons EXCEPT
                                               ![index] = ToggledBack(@)]
                          /\ signals' = IF sep_buttons' # sep_buttons
                                        THEN <<SepSignal(widget, index)>> \o Tail(signals)
                                        ELSE Tail(signals)
                          /\ UNCHANGED <<custom_cbutton, custom_entry>>
                  /\ hist' = [hist EXCEPT !.failed = TRUE]
                  /\ UNCHANGED <<column_types, date_format, orig_lines, viewVars>>
             ELSE \* the parse succeeded: redisplay the data
                  /\ column_types' = KeptColumnTypes(column_types, out)
                  /\ orig_lines' = AllLines
                  /\ PreviewTreeview(column_types', orig_lines', error_lines,
                                     encoding, previewing_errors)
                  /\ signals' = Tail(signals)
                  /\ UNCHANGED <<sepVars, date_format_combo,
                                 encoding_selected_called, previewing_errors,
                                 approved, hist>>
  /\ UNCHANGED <<file, pc, pd_state, encoding, error_lines, transactions,
                 pv_state, conv_known, user_canceled, importer_gui>>
  /\ UNCHANGED ceVars

\* One invocation of encoding_selected with the encoding the toolkit passes.
EncodingSelected ==
  /\ DialogRuns
  /\ signals # <<>>
  /\ Head(signals).handler = "enc"
  /\ LET enc == Head(signals).arg
         previous_encoding == encoding
         \* the failure branch: report, clear the flag, set the selector back
         Failure ==
           /\ encoding_selected_called' = FALSE
           /\ encselector' = IF SelectorChanges(encselector, previous_encoding)
                             THEN previous_encoding ELSE encselector
           /\ signals' = IF SelectorChanges(encselector, previous_encoding)
                         THEN <<EncSignal(previous_encoding),
                                EncSignal(previous_encoding)>> \o Tail(signals)
                         ELSE Tail(signals)
           /\ hist' = [hist EXCEPT !.failed = TRUE]
           /\ UNCHANGED <<column_types, date_format, orig_lines, ctstore, store,
                          code_encoding_calls>>
     IN
     IF code_encoding_calls > 0
     THEN /\ code_encoding_calls' = code_encoding_calls - 1
          /\ signals' = Tail(signals)
          /\ UNCHANGED <<encoding, column_types, date_format, orig_lines,
                         encselector, ctstore, store, encoding_selected_called,
                         parserVars, hist>>
     ELSE IF encoding_selected_called
     THEN \E conv \in ConvOutcomes(enc) :
            /\ conv_known' = conv_known \cup {ConvRecord(enc, conv)}
            /\ IF ~conv
               THEN /\ Failure
                    /\ UNCHANGED <<encoding, parse_known>>
               ELSE /\ encoding' = enc
                    /\ \E out \in ParseOutcomes(enc, separators) :
                         /\ parse_known' = parse_known \cup
                                             {ParseRecord(enc, separators, out)}
                         /\ IF out = 0
                            THEN Failure
                            ELSE /\ column_types' = KeptColumnTypes(column_types, out)
                                 /\ orig_lines' = AllLines
                                 /\ PreviewTreeview(column_types', orig_lines',
                                                    error_lines, enc,
                                                    previewing_errors)
                                 /\ encoding_selected_called' = FALSE
                                 /\ signals' = Tail(signals)
                                 /\ UNCHANGED hist
     ELSE /\ encoding_selected_called' = TRUE
          /\ signals' = Tail(signals)
          /\ UNCHANGED <<encoding, column_types, date_format, orig_lines,
                         encselector, ctstore, store, code_encoding_calls,
                         parserVars, hist>>
  /\ UNCHANGED <<file, pc, pd_state, separators, error_lines, transactions,
                 pv_state, sepVars, date_format_combo, previewing_errors,
                 approved, user_canceled, importer_gui>>
  /\ UNCHANGED ceVars

Next ==
  \/ SelectFile
  \/ LoadFile
  \/ InitialParse
  \/ OpenPreview
  \/ SelectAccount
  \/ UserToggleSep
  \/ UserToggleCustom
  \/ UserEditCustom
  \/ UserSelectEncoding
  \/ UserSelectDateFormat
  \/ UserEditColumnType
  \/ UserClickOk
  \/ UserClickCancel
  \/ UserClickOkErrors
  \/ UserClickCancelErrors
  \/ SepButtonClicked
  \/ EncodingSelected

Spec == Init /\ [][Next]_vars

\* The toolkit calls a handler it owes as soon as the handler before it has
\* returned: an owed invocation of sep_button_clicked or encoding_selected
\* does not wait for ever.
Fairness == WF_vars(SepButtonClicked) /\ WF_vars(EncodingSelected)

LiveSpec == Spec /\ Fairness

(***************************************************************************)
(* The first preview taken up after the user has checked the custom        *)
(* separator button and typed a custom separator that parsed: the state    *)
(* Spec reaches from a loaded and parsed file by UserToggleCustom and       *)
(* UserEditCustom.  CustomSpec follows the dialog from there until it      *)
(* closes.                                                                 *)
(***************************************************************************)
CustomInit ==
  \E enc \in Encodings, text \in CustomTexts \ {""},
     n \in {MaxCols - 1, MaxCols}, m \in {MaxCols - 1, MaxCols} :
    \E guessed \in GuessedColumnTypes(n) :
      /\ file \in Files
      /\ pc = "preview"
      /\ pd_state = "alive"
      /\ encoding = enc
      /\ separators = DefaultSeparators \cup {text}
      /\ column_types = KeptColumnTypes(guessed, m)
      /\ date_format = 0
      /\ orig_lines = AllLines
      /\ error_lines = <<>>
      /\ transactions = <<>>
      /\ pv_state = "alive"
      /\ sep_buttons = [i \in 1..SEP_NUM_OF_TYPES |->
                          stock_separator_characters[i] \in DefaultSeparators]
      /\ custom_cbutton = TRUE
      /\ custom_entry = text
      /\ encselector = enc
      /\ date_format_combo = 0
      /\ ctstore = TypeStrings(column_types)
      /\ store = orig_lines
      /\ encoding_selected_called = FALSE
      /\ previewing_errors = FALSE
      /\ code_encoding_calls = 2
      /\ approved = FALSE
      /\ signals = <<>>
      /\ parse_known = {ParseRecord(enc, DefaultSeparators, n),
                        ParseRecord(enc, separators, m)}
      /\ conv_known = {ConvRecord(enc, TRUE)}
      /\ user_canceled = FALSE
      /\ importer_gui = <<>>
      /\ hist = [HistInit EXCEPT !.parsed = TRUE, !.load_error = "ok"]
      /\ NoCurrencyEdit

CustomNext ==
  \/ UserToggleSep
  \/ UserToggleCustom
  \/ UserEditCustom
  \/ UserSelectEncoding
  \/ UserSelectDateFormat
  \/ UserEditColumnType
  \/ UserClickOk
  \/ UserClickCancel
  \/ SepButtonClicked
  \/ EncodingSelected

CustomSpec == CustomInit /\ [][CustomNext]_vars

(***************************************************************************)
(* The import of a file in which the date of every row but one parses      *)
(* under the first date format, taken up at the account prompt: the file   *)
(* loaded and parsed into MaxCols columns with guessed types, and the      *)
(* first preview confirmed unchanged.  EndToEndSpec follows the import     *)
(* from there to its end.                                                  *)
(***************************************************************************)
EndToEndRows == 4

\* The files with one row whose date parses under the second format only.
EndToEndFiles ==
  {[i \in 1..EndToEndRows |-> IF i = bad THEN <<1>> ELSE <<0>>] :
     bad \in 1..EndToEndRows}

EndToEndInit ==
  \E enc \in Encodings :
    /\ file \in EndToEndFiles
    /\ pc = "account"
    /\ pd_state = "alive"
    /\ encoding = enc
    /\ separators = DefaultSeparators
    /\ column_types = [i \in 1..MaxCols |->
                         IF i <= 3
                         THEN <<GNC_CSV_DATE, GNC_CSV_AMOUNT, GNC_CSV_DESCRIPTION>>[i]
                         ELSE GNC_CSV_NONE]
    /\ date_format = 0
    /\ orig_lines = AllLines
    /\ error_lines = <<>>
    /\ transactions = <<>>
    /\ pv_state = "alive"
    /\ sep_buttons = [i \in 1..SEP_NUM_OF_TYPES |->
                        stock_separator_characters[i] \in DefaultSeparators]
    /\ custom_cbutton = FALSE
    /\ custom_entry = ""
    /\ encselector = enc
    /\ date_format_combo = 0
    /\ ctstore = TypeStrings(column_types)
    /\ store = orig_lines
    /\ encoding_selected_called = FALSE
    /\ previewing_errors = FALSE
    /\ code_encoding_calls = IF SelectorChanges(DefaultEncoding, enc) THEN 0 ELSE 2
    /\ approved = TRUE
    /\ signals = <<>>
    /\ parse_known = {ParseRecord(enc, DefaultSeparators, MaxCols)}
    /\ conv_known = {ConvRecord(enc, TRUE)}
    /\ user_canceled = FALSE
    /\ importer_gui = <<>>
    /\ hist = [HistInit EXCEPT !.parsed = TRUE, !.load_error = "ok",
                               !.ok_initial = TRUE]
    /\ NoCurrencyEdit

EndToEndNext ==
  \/ SelectAccount
  \/ UserToggleSep
  \/ UserToggleCustom
  \/ UserEditCustom
  \/ UserSelectEncoding
  \/ UserSelectDateFormat
  \/ UserEditColumnType
  \/ UserClickOkErrors
  \/ UserClickCancelErrors
  \/ SepButtonClicked
  \/ EncodingSelected

EndToEndSpec == EndToEndInit /\ [][EndToEndNext]_vars

(***************************************************************************)
(* The first preview of a file that parses whichever stock separators are  *)
(* checked, taken up idle with any of the check buttons checked and any    *)
(* custom text: a state the user reaches from the opened preview by        *)
(* toggling buttons and typing a text.  SeparatorSpec follows the          *)
(* separator changes made from there.                                      *)
(***************************************************************************)
SeparatorInit ==
  \E buttons \in [1..SEP_NUM_OF_TYPES -> BOOLEAN], cbutton \in BOOLEAN,
     text \in CustomTexts :
    /\ file \in Files
    /\ pc = "preview"
    /\ pd_state = "alive"
    /\ encoding = DefaultEncoding
    /\ separators = CheckedSeparators(buttons, cbutton, text)
    /\ column_types = [i \in 1..MaxCols |-> GNC_CSV_NONE]
    /\ date_format = 0
    /\ orig_lines = AllLines
    /\ error_lines = <<>>
    /\ transactions = <<>>
    /\ pv_state = "alive"
    /\ sep_buttons = buttons
    /\ custom_cbutton = cbutton
    /\ custom_entry = text
    /\ encselector = DefaultEncoding
    /\ date_format_combo = 0
    /\ ctstore = TypeStrings(column_types)
    /\ store = orig_lines
    /\ encoding_selected_called = FALSE
    /\ previewing_errors = FALSE
    /\ code_encoding_calls = 2
    /\ approved = FALSE
    /\ signals = <<>>
    /\ parse_known =
         {ParseRecord(DefaultEncoding, CheckedSeparators(b, cbutton, text), MaxCols) :
            b \in [1..SEP_NUM_OF_TYPES -> BOOLEAN]}
    /\ conv_known = {ConvRecord(DefaultEncoding, TRUE)}
    /\ user_canceled = FALSE
    /\ importer_gui = <<>>
    /\ hist = [HistInit EXCEPT !.parsed = TRUE, !.load_error = "ok"]
    /\ NoCurrencyEdit

SeparatorNext ==
  \/ UserToggleSep
  \/ UserToggleCustom
  \/ UserEditCustom
  \/ SepButtonClicked

SeparatorSpec == SeparatorInit /\ [][SeparatorNext]_vars

(***************************************************************************)
(* The currency selector GNCCurrencyEdit: a combo box whose list holds the *)
(* print names of the commodities of the ISO namespace.  Strings are       *)
(* sequences of characters.                                                *)
(***************************************************************************)
\* The character codes strcmp compares.
Code ==
  [c \in {" ", "(", ")", "A", "B", "a"} |->
     CASE c = " " -> 32 [] c = "(" -> 40 [] c = ")" -> 41
       [] c = "A" -> 65 [] c = "B" -> 66 [] c = "a" -> 97]

Mnemonics == {<<"A">>, <<"B">>, <<"a">>, <<"A", "B">>}
FullNames == {<<"a">>, <<"B">>}
AllCommodities == [mnemonic : Mnemonics, fullname : FullNames]

\* The ISO namespace of the commodity table: a mnemonic names one commodity.
Tables ==
  {t \in SUBSET AllCommodities :
     /\ Cardinality(t) <= MaxCurrencies
     /\ \A c, d \in t : c.mnemonic = d.mnemonic => c = d}

\* gnc_locale_default_currency: a commodity of the table, NULL when the table
\* has none.
LocaleDefaults(t) == IF t = {} THEN {NullCommodity} ELSE t

\* gnc_commodity_table_get_commodities returns the commodities in an order
\* of its own.
Orders(t) == {l \in [1..Cardinality(t) -> t] : Range(l) = t}

\* gnc_commodity_get_printname: the mnemonic, a space, and the full name in
\* parentheses.
gnc_commodity_get_printname(c) == c.mnemonic \o <<" ", "(">> \o c.fullname \o <<")">>

\* gnc_commodity_table_lookup in the ISO namespace.
gnc_commodity_table_lookup(iso, mnemonic) ==
  IF \E c \in iso : c.mnemonic = mnemonic
  THEN CHOOSE c \in iso : c.mnemonic = mnemonic
  ELSE NullCommodity

RECURSIVE strcmp(_, _)
\* the sign of strcmp of two strings
strcmp(a, b) ==
  IF a = <<>> /\ b = <<>> THEN 0
  ELSE IF a = <<>> THEN -1
  ELSE IF b = <<>> THEN 1
  ELSE IF Code[Head(a)] < Code[Head(b)] THEN -1
  ELSE IF Code[Head(a)] > Code[Head(b)] THEN 1
  ELSE strcmp(Tail(a), Tail(b))

currency_compare(a, b) ==
  strcmp(gnc_commodity_get_printname(a), gnc_commodity_get_printname(b))

RECURSIVE SortedInsert(_, _)
SortedInsert(x, l) ==
  IF l = <<>> THEN <<x>>
  ELSE IF currency_compare(x, Head(l)) < 0 THEN <<x>> \o l
  ELSE <<Head(l)>> \o SortedInsert(x, Tail(l))

RECURSIVE Sorted(_)
Sorted(l) == IF l = <<>> THEN <<>> ELSE SortedInsert(Head(l), Sorted(Tail(l)))

\* A variant of fill_currencies that does not sort.
UnsortedCurrencies(currencies) == currencies

\* fill_currencies: g_list_sort with currency_compare.
SortedCurrencies(currencies) == Sorted(currencies)

\* fill_currencies: the texts appended to the combo box.
fill_currencies(currencies) ==
  [i \in 1..Len(currencies) |->
     gnc_commodity_get_printname(SortedCurrencies(currencies)[i])]

\* gnc_currency_edit_set_currency: the first entry whose text is the print
\* name, 0 when there is none.
FirstMatch(model, printname) ==
  LET hits == {i \in 1..Len(model) : strcmp(printname, model[i]) = 0}
  IN  IF hits = {} THEN 0 ELSE CHOOSE i \in hits : \A j \in hits : i <= j

\* A variant that clears the selection when nothing matches.
SetCurrencyActiveOrNone(model, active, currency) ==
  FirstMatch(model, gnc_commodity_get_printname(currency))

\* gnc_currency_edit_set_currency: the active entry after the call.
SetCurrencyActive(model, active, currency) ==
  IF model = <<>>
  THEN active
  ELSE LET i == FirstMatch(model, gnc_commodity_get_printname(currency))
       IN  IF i # 0 THEN i ELSE active

\* A variant that cuts the text at the first parenthesis.
MnemonicUpToParen(fullname) ==
  LET at == {i \in 1..Len(fullname) : fullname[i] = "("}
  IN  IF at = {} THEN fullname
      ELSE SubSeq(fullname, 1, (CHOOSE i \in at : \A j \in at : i <= j) - 1)

\* gnc_currency_edit_get_currency: the text up to the first space.
MnemonicOf(fullname) ==
  LET at == {i \in 1..Len(fullname) : fullname[i] = " "}
  IN  IF at = {} THEN fullname
      ELSE SubSeq(fullname, 1, (CHOOSE i \in at : \A j \in at : i <= j) - 1)

\* A variant that never finds an active entry.
UsesLookupNever(active) == FALSE

\* gnc_currency_edit_get_currency: gtk_combo_box_get_active_iter succeeds
\* when an entry is active.
UsesLookup(active) == active # 0

CurrencyInit ==
  /\ WorkflowInit
  /\ \E t \in Tables :
       \E d \in LocaleDefaults(t) :
         commodities = [iso |-> t, locale_default |-> d]
  /\ gce = [state |-> "none", model |-> <<>>, active |-> 0]
  /\ ce_hist = NoCall

\* What ce_hist keeps of the call before.
Previous == [op |-> ce_hist.op, arg |-> ce_hist.arg, pre_active |-> ce_hist.pre_active]

\* gnc_currency_edit_new.
CurrencyEditNew ==
  /\ gce.state = "none"
  /\ \E currencies \in Orders(commodities.iso) :
       gce' = [state |-> "built", model |-> fill_currencies(currencies),
               active |-> 0]
  /\ ce_hist' = [NoCall EXCEPT !.op = "new", !.built = gce'.model]
  /\ UNCHANGED <<workflowVars, commodities>>

\* The user picks an entry of the combo box.
UserSelectsCurrency ==
  /\ gce.state = "built"
  /\ \E i \in 1..Len(gce.model) :
       /\ i # gce.active
       /\ gce' = [gce EXCEPT !.active = i]
  /\ ce_hist' = [NoCall EXCEPT !.op = "select", !.pre_active = gce.active,
                               !.built = ce_hist.built, !.prev = Previous]
  /\ UNCHANGED <<workflowVars, commodities>>

\* gnc_currency_edit_set_currency.
CurrencyEditSetCurrency ==
  /\ gce.state = "built"
  /\ \E currency \in AllCommodities :
       /\ gce' = [gce EXCEPT !.active = SetCurrencyActive(gce.model, @, currency)]
       /\ ce_hist' = [NoCall EXCEPT !.op = "set", !.arg = currency,
                                    !.pre_active = gce.active,
                                    !.built = ce_hist.built, !.prev = Previous]
  /\ UNCHANGED <<workflowVars, commodities>>

\* gnc_currency_edit_get_currency.
CurrencyEditGetCurrency ==
  /\ gce.state = "built"
  /\ IF UsesLookup(gce.active)
     THEN LET mnemonic == MnemonicOf(gce.model[gce.active])
          IN  ce_hist' =
                [NoCall EXCEPT !.op = "get", !.pre_active = gce.active,
                   !.looked_up = TRUE, !.lookup_arg = mnemonic,
                   !.result = gnc_commodity_table_lookup(commodities.iso, mnemonic),
                   !.built = ce_hist.built, !.prev = Previous]
     ELSE ce_hist' =
            [NoCall EXCEPT !.op = "get", !.pre_active = gce.active,
               !.used_default = TRUE, !.warned = TRUE,
               !.result = commodities.locale_default,
               !.built = ce_hist.built, !.prev = Previous]
  /\ UNCHANGED <<workflowVars, commodities, gce>>

CurrencyNext ==
  \/ CurrencyEditNew
  \/ UserSelectsCurrency
  \/ CurrencyEditSetCurrency
  \/ CurrencyEditGetCurrency

CurrencySpec == CurrencyInit /\ [][CurrencyNext]_vars

(***************************************************************************)
(* Properties.                                                             *)
(***************************************************************************)
\* The separators the widgets denote: the character of every checked stock
\* button, and the custom text when its button is checked and the text is
\* not empty.
DisplayedSeparators ==
  {stock_separator_characters[i] : i \in {j \in 1..SEP_NUM_OF_TYPES : sep_buttons[j]}}
  \cup {t \in {custom_entry} : custom_cbutton /\ t # ""}

SepChangeFailed == Idle /\ hist.trigger.kind = "sep" /\ hist.failed

\* C1: when the dialog is idle again after a separator change whose reparse
\* failed, the separators stored in the parse options are exactly the ones
\* the check buttons and the custom entry display.
C1_OptionsMatchDisplay == SepChangeFailed => separators = DisplayedSeparators

C1_Witness ==
  /\ SepChangeFailed
  /\ separators = DisplayedSeparators
  /\ custom_entry # ""

CheckboxToggleFailed ==
  /\ SepChangeFailed
  /\ hist.trigger.widget \in {"sep_button", "custom_cbutton"}

\* C2: when a toggle of a check button makes the reparse fail, every check
\* button is, once the handler and its nested invocations have returned, in
\* the state it had before the toggle.
C2_CheckboxesRestored ==
  CheckboxToggleFailed =>
    /\ sep_buttons = hist.pre.sep_buttons
    /\ custom_cbutton = hist.pre.custom_cbutton

C2_Witness ==
  /\ CheckboxToggleFailed
  /\ sep_buttons = hist.pre.sep_buttons
  /\ custom_cbutton = hist.pre.custom_cbutton
  /\ hist.nevents = 2

EncodingChangeFailed == Idle /\ hist.trigger.kind = "enc" /\ hist.failed

\* C3: when an encoding change fails, the encoding selector shows, once the
\* dialog is idle again, the value it showed before the attempt.
C3_SelectorRestored ==
  EncodingChangeFailed => encselector = hist.pre.encselector

\* No non-None type string is shown by two columns.
Injective(st) ==
  \A i, j \in 1..Len(st) :
    (i # j /\ st[i] # column_type_strs[GNC_CSV_NONE + 1]) => st[i] # st[j]

ColumnTypeWasEdited == DialogRuns /\ hist.trigger.kind = "coltype"

\* C4: after the user edited the type of a column, no two columns of the
\* column type view display the same type other than None.
C4_TypesInjective == ColumnTypeWasEdited => Injective(ctstore)

C4_Witness ==
  /\ ColumnTypeWasEdited
  /\ hist.reset
  /\ ctstore[hist.trigger.arg] # column_type_strs[GNC_CSV_NONE + 1]
  /\ Injective(ctstore)

HandedOff == pc = "done" /\ importer_gui # <<>>

\* C5: the error preview is open only while error lines remain and the user
\* has not cancelled an error preview, and the hand-off to the matcher
\* happens only when no error line remains or the last error preview was
\* cancelled.
C5_LoopContract ==
  /\ pc = "errors_run" => (error_lines # <<>> /\ ~hist.canceled_errors)
  /\ HandedOff => (error_lines = <<>> \/ hist.canceled_errors)

C5_Witness ==
  /\ HandedOff
  /\ error_lines # <<>>
  /\ hist.canceled_errors
  /\ user_canceled

\* The transactions given to the matcher, in the order of the calls.
Added ==
  LET adds == SelectSeq(importer_gui, LAMBDA c : c.call = "add")
  IN  [i \in 1..Len(adds) |-> adds[i].arg]

\* C6: when the user cancels the error preview, every transaction that
\* existed at that point is still handed to the matcher.
C6_CancelKeepsTransactions ==
  (pc = "done" /\ hist.canceled_errors) =>
    Range(hist.cancel_trans) \subseteq Range(Added)

C6_Witness ==
  /\ pc = "done"
  /\ hist.canceled_errors
  /\ hist.cancel_trans # <<>>
  /\ Range(hist.cancel_trans) \subseteq Range(Added)

\* C7: the transactions added to the matcher session are the elements of the
\* transaction list, each once and in list order.
C7_AddsFollowList == HandedOff => Added = transactions

C7_Witness ==
  /\ HandedOff
  /\ Len(transactions) >= 2
  /\ Added = transactions

\* C8: after the adds exactly one of run and delete is called on the
\* session, as the last call, and it is delete exactly when no transaction
\* was produced.
C8_RunOrDelete ==
  HandedOff =>
    LET n == Len(importer_gui)
    IN  /\ n >= 2
        /\ importer_gui[1].call = "new"
        /\ \A i \in 2..(n - 1) : importer_gui[i].call = "add"
        /\ importer_gui[n].call \in {"run", "delete"}
        /\ importer_gui[n].call = "delete" <=> transactions = <<>>

C8_Witness ==
  /\ HandedOff
  /\ importer_gui[Len(importer_gui)].call = "delete"
  /\ transactions = <<>>
  /\ hist.canceled_errors

CanceledInitialPreview ==
  pc = "done" /\ pv_state = "freed" /\ ~hist.ok_initial

\* C9: when the user cancels the initial preview no transaction is built,
\* no matcher session is created and the parse data is freed.
C9_CancelInitialPreview ==
  CanceledInitialPreview =>
    /\ ~hist.built
    /\ importer_gui = <<>>
    /\ pd_state = "freed"

C9_Witness ==
  /\ CanceledInitialPreview
  /\ ~hist.built
  /\ importer_gui = <<>>
  /\ pd_state = "freed"
  /\ column_types # <<>>

FileOpenFailed == hist.load_error = "open_err"

\* C10: a file open error ends the import: nothing is parsed, no preview is
\* created, no account is asked for, no transaction is built and the parse
\* data is freed.
C10_FileOpenErrorIsFatal ==
  FileOpenFailed =>
    /\ pc = "done"
    /\ pd_state = "freed"
    /\ ~hist.parsed
    /\ pv_state = "none"
    /\ ~hist.prompted
    /\ ~hist.built
    /\ importer_gui = <<>>

C10_Witness ==
  /\ FileOpenFailed
  /\ pc = "done"
  /\ pd_state = "freed"
  /\ ~hist.parsed
  /\ pv_state = "none"

EncodingGuessFailed == hist.load_error = "guess_err"

\* C11: a load error other than a file open error is reported and the
\* import goes on: the parse data stays alive through the initial parse and
\* the initial preview, and the import never ends without the parse having
\* run and the preview having been created.
C11_GuessErrorIsNotFatal ==
  EncodingGuessFailed =>
    /\ hist.load_reported
    /\ pc \in {"parse", "preview_new", "preview"} => pd_state = "alive"
    /\ pc \notin {"load", "parse"} => hist.parsed
    /\ pc \notin {"load", "parse", "preview_new"} => pv_state # "none"

C11_Witness ==
  /\ EncodingGuessFailed
  /\ hist.load_reported
  /\ pc = "preview"
  /\ hist.parsed
  /\ pd_state = "alive"
  /\ pv_state = "alive"

\* The column types of parse_data are the types the column type row shows.
TypesAsDisplayed ==
  /\ Len(column_types) = Len(ctstore)
  /\ \A i \in 1..Len(column_types) :
       column_type_strs[column_types[i] + 1] = ctstore[i]

\* "OK" was the last thing that happened to the dialog.
OkJustClicked ==
  \/ pc = "account"
  \/ pc = "done" /\ importer_gui # <<>> /\ approved

\* C12: right after the OK handler, every column type of parse_data is the
\* type displayed for that column and the approved flag is set.
C12_OkCapturesDisplay == OkJustClicked => (approved /\ TypesAsDisplayed)

C12_Witness ==
  /\ pc = "account"
  /\ approved
  /\ TypesAsDisplayed
  /\ Len(column_types) >= 2
  /\ column_types[2] = GNC_CSV_DATE

\* The print names the list of the selector holds.
ListedNames == Range(gce.model)

SetThenGet ==
  /\ ce_hist.op = "get"
  /\ ce_hist.prev.op = "set"
  /\ gnc_commodity_get_printname(ce_hist.prev.arg) \in ListedNames

\* C13: setting a currency whose print name is in the list and then reading
\* the selector returns a commodity with the mnemonic of the currency set,
\* whatever was selected before.
C13_SetThenGetRoundTrip ==
  SetThenGet => ce_hist.result.mnemonic = ce_hist.prev.arg.mnemonic

C13_Witness ==
  /\ SetThenGet
  /\ ce_hist.result = ce_hist.prev.arg
  /\ ce_hist.prev.pre_active \notin {0, gce.active}

SetOfUnlisted ==
  /\ ce_hist.op = "set"
  /\ gnc_commodity_get_printname(ce_hist.arg) \notin ListedNames

\* C14: setting a currency whose print name is not in the list (the list
\* may be empty) leaves the active selection as it was.
C14_UnlistedKeepsSelection == SetOfUnlisted => gce.active = ce_hist.pre_active

C14_Witness ==
  /\ SetOfUnlisted
  /\ ce_hist.pre_active # 0
  /\ gce.active = ce_hist.pre_active
  /\ ce_hist.arg.mnemonic \in {c.mnemonic : c \in commodities.iso}

\* C15: reading the selector with no active entry returns the locale's
\* default currency with a warning and without a lookup; with an active
\* entry it returns the result of looking up the mnemonic derived from the
\* entry and never asks for the default.
C15_GetCurrencySource ==
  ce_hist.op = "get" =>
    IF ce_hist.pre_active = 0
    THEN /\ ce_hist.result = commodities.locale_default
         /\ ce_hist.used_default
         /\ ce_hist.warned
         /\ ~ce_hist.looked_up
    ELSE /\ ~ce_hist.used_default
         /\ ce_hist.looked_up
         /\ ce_hist.result \in commodities.iso
         /\ gnc_commodity_get_printname(ce_hist.result) = gce.model[gce.active]

C15_Witness ==
  /\ ce_hist.op = "get"
  /\ ce_hist.pre_active = 0
  /\ ce_hist.result = commodities.locale_default
  /\ ce_hist.warned
  /\ commodities.iso # {}

\* Ascending order of strings by character code, upper case before lower.
Precedes(a, b) ==
  \E k \in 1..(Len(a) + 1) :
    /\ k <= Len(b) + 1
    /\ \A i \in 1..(k - 1) : a[i] = b[i]
    /\ \/ k = Len(a) + 1 /\ k <= Len(b)
       \/ k <= Len(a) /\ k <= Len(b) /\ Code[a[k]] < Code[b[k]]

\* C16: the list of the selector holds the print names of all commodities of
\* the ISO namespace in ascending case-sensitive order, and it is the list
\* built at construction after any calls.
C16_ListFixedAndSorted ==
  gce.state = "built" =>
    /\ gce.model = ce_hist.built
    /\ ListedNames = {gnc_commodity_get_printname(c) : c \in commodities.iso}
    /\ Len(gce.model) = Cardinality(commodities.iso)
    /\ \A i \in 1..(Len(gce.model) - 1) : Precedes(gce.model[i], gce.model[i + 1])

C16_Witness ==
  /\ gce.state = "built"
  /\ ce_hist.op = "get"
  /\ ce_hist.prev.op = "set"
  /\ Len(gce.model) >= 2
  /\ gce.model = ce_hist.built
  /\ \E i \in 1..(Len(gce.model) - 1) :
       gce.model[i][1] = "B" /\ gce.model[i + 1][1] = "a"

CustomTextEditFailed ==
  /\ SepChangeFailed
  /\ hist.trigger.widget = "custom_entry"

\* C17: when the reparse triggered by an edit of the custom separator text
\* fails, the text is, once the dialog is idle again, the text it was before
\* the edit.
C17_CustomTextRestored ==
  CustomTextEditFailed => custom_entry = hist.pre.custom_entry

ConfigChangeFailed == SepChangeFailed \/ EncodingChangeFailed

\* The settings the dialog displays, without the control the user changed.
OtherSettings(shown) ==
  [sep_buttons |-> [i \in 1..SEP_NUM_OF_TYPES |->
                      IF hist.trigger.widget = "sep_button" /\ hist.trigger.arg = i
                      THEN FALSE ELSE shown.sep_buttons[i]],
   custom_cbutton |-> IF hist.trigger.widget = "custom_cbutton"
                      THEN FALSE ELSE shown.custom_cbutton,
   custom_entry |-> IF hist.trigger.widget = "custom_entry"
                    THEN "" ELSE shown.custom_entry,
   encselector |-> IF hist.trigger.kind = "enc" THEN "" ELSE shown.encselector,
   date_format_combo |-> shown.date_format_combo,
   ctstore |-> shown.ctstore]

\* C18: when the dialog is idle again after a separator or encoding change
\* that failed, every displayed setting other than the control the user
\* changed (the other check buttons, the custom text, the encoding selector,
\* the date format selector and the displayed column types) has the value it
\* had before the change.
C18_OnlyTriggerReverted ==
  ConfigChangeFailed => OtherSettings(Snapshot) = OtherSettings(hist.pre)

\* C19: whenever the preview dialog is idle, waiting for the next user
\* action, the encoding selector shows the encoding of the parse data.
C19_SelectorShowsEncoding == Idle => encselector = encoding

\* No type other than None is carried by two columns of the parse data.
OneColumnPerType(types) ==
  \A i, j \in 1..Len(types) :
    (i # j /\ types[i] # GNC_CSV_NONE) => types[i] # types[j]

\* C20: in every state of the import, and so whenever the transactions are
\* built, the column types of the parse data hold each of Date, Description
\* and Amount at most once.
C20_OneColumnPerType == OneColumnPerType(column_types)

\* The transactions were built from column types the user confirmed, with
\* Date moved to the second column.
C20_Witness ==
  /\ hist.built
  /\ approved
  /\ Len(column_types) = MaxCols
  /\ column_types[2] = GNC_CSV_DATE
  /\ OneColumnPerType(column_types)

\* The first error preview has just opened.
FirstErrorPreview == pc = "errors_run" /\ hist.built /\ hist.nevents = 0

\* The user has, as the only change, selected the second date format in an
\* error preview and closed that preview with "OK".
CorrectedAndConfirmed ==
  /\ pc \in {"errors_run", "done"}
  /\ hist.built
  /\ hist.nevents = 1
  /\ hist.trigger = NoTrigger
  /\ date_format = 1
  /\ ~hist.canceled_errors

\* C21: for a file whose rows are well formed but for one row with a
\* malformed date, the first gnc_parse_to_trans leaves exactly one error
\* line, and once the user has corrected the date format in the error
\* preview and confirmed, no error line remains and the transactions hold
\* every row of the file exactly once.
C21_ErrorCorrection ==
  /\ FirstErrorPreview =>
       /\ Len(error_lines) = 1
       /\ Len(transactions) = EndToEndRows - 1
  /\ CorrectedAndConfirmed =>
       /\ error_lines = <<>>
       /\ Len(transactions) = EndToEndRows
       /\ Range(transactions) = 1..EndToEndRows

C21_Witness ==
  /\ CorrectedAndConfirmed
  /\ HandedOff
  /\ error_lines = <<>>
  /\ Len(transactions) = EndToEndRows

\* C22: preview->approved is FALSE while a preview dialog runs and TRUE only
\* once "OK" was clicked; the first preview returned 0 exactly when "OK"
\* closed it, and an error preview returned 1 exactly when it was not closed
\* with "OK", whatever an earlier preview left in the flag.
C22_ApprovedOnlyByOk ==
  /\ DialogRuns => ~approved
  /\ approved => hist.ok_initial
  /\ pc = "account" => (approved /\ hist.ok_initial)
  /\ CanceledInitialPreview => ~approved
  /\ user_canceled = hist.canceled_errors

\* An error preview was cancelled after the first preview had been approved.
C22_Witness ==
  /\ pc = "done"
  /\ hist.ok_initial
  /\ hist.canceled_errors
  /\ user_canceled
  /\ ~approved

SepChangeSucceeded == Idle /\ hist.trigger.kind = "sep" /\ ~hist.failed

\* C23: when the dialog is idle again after a separator change whose reparse
\* succeeded, every column that still exists displays the type it displayed
\* before the change, confirmed with "OK" or not.
C23_TypesSurviveReparse ==
  SepChangeSucceeded =>
    \A i \in 1..Len(ctstore) :
      i <= Len(hist.pre.ctstore) => ctstore[i] = hist.pre.ctstore[i]

\* C24: whenever the preview dialog is idle the counter code_encoding_calls
\* is 0, so that the two callback invocations of the next selection by the
\* user are not taken for ones the program caused.
C24_CounterZeroWhenIdle == Idle => code_encoding_calls = 0

\* The next invocation of encoding_selected was caused by the program: the
\* user's selection has failed, and what the toolkit still owes are the
\* callbacks of the selector being set back.
CodeCausedCallback ==
  /\ DialogRuns
  /\ signals # <<>>
  /\ Head(signals).handler = "enc"
  /\ hist.trigger.kind = "enc"
  /\ hist.failed

\* C25: an invocation of encoding_selected caused by the program setting the
\* selector changes neither the encoding of the parse data, nor what is
\* known of the parser's outcomes, nor the flag encoding_selected_called.
C25_CodeCausedNoImpact ==
  [][CodeCausedCallback =>
       UNCHANGED <<encoding_selected_called, encoding, parse_known, conv_known>>]_vars

\* The toolkit owes invocations of sep_button_clicked for a separator change
\* the user made.
HandlingSepChange ==
  /\ DialogRuns
  /\ signals # <<>>
  /\ hist.trigger.kind = "sep"

\* C26: the invocations of sep_button_clicked that one separator change by
\* the user starts come to an end: the dialog is idle again.
C26_SepHandlingTerminates == HandlingSepChange ~> Idle

\* The toolkit is about to call sep_button_clicked.
SepEvent == DialogRuns /\ signals # <<>> /\ Head(signals).handler = "sep"

\* C27: each invocation of sep_button_clicked passes to the parser exactly
\* the stock characters of the check buttons that are checked, and the
\* custom text exactly when the custom button is checked and the text is
\* not empty: never a blank separator, never the text of an unchecked button.
C27_SeparatorsPassed ==
  [][SepEvent =>
       /\ \A c \in separators' :
            \/ \E i \in 1..SEP_NUM_OF_TYPES :
                 sep_buttons[i] /\ c = stock_separator_characters[i]
            \/ custom_cbutton /\ c = custom_entry
       /\ \A i \in 1..SEP_NUM_OF_TYPES :
            sep_buttons[i] => stock_separator_characters[i] \in separators'
       /\ (custom_cbutton /\ custom_entry # "") => custom_entry \in separators'
       /\ "" \notin separators'
       /\ \E r \in parse_known' : r.enc = encoding /\ r.seps = separators']_vars

\* A parse was made with the hyphen and a custom text as separators while
\* the comma button was not checked.
C27_Witness ==
  /\ DialogRuns
  /\ hist.trigger.kind = "sep"
  /\ signals = <<>>
  /\ custom_cbutton
  /\ custom_entry # ""
  /\ sep_buttons[SEP_NUM_OF_TYPES]
  /\ ~sep_buttons[3]
  /\ separators = {"-", custom_entry}

\* C28: whenever the preview dialog is idle, and whenever the transactions
\* are about to be built after a preview (at the account prompt, and in an
\* idle error preview), the date format of the parse data is the index
\* active in the date format selector.
C28_DateFormatIsSelected ==
  (Idle \/ pc = "account") => date_format = date_format_combo

\* The user selected the second date format in an error preview.
C28_Witness ==
  /\ Idle
  /\ pc = "errors_run"
  /\ hist.trigger.kind = "date"
  /\ date_format_combo = 1
  /\ date_format = 1

\* C29: the idle first preview shows all the original rows in file order;
\* an idle error preview shows the original rows listed in error_lines, one
\* row per entry and in the order of error_lines; and once an error preview
\* has opened, the dialog shows error rows only.
C29_RowsAreProjection ==
  /\ (Idle /\ pc = "preview") =>
       /\ ~previewing_errors
       /\ store = orig_lines
  /\ (Idle /\ pc = "errors_run") =>
       /\ previewing_errors
       /\ Len(store) = Len(error_lines)
       /\ \A k \in 1..Len(store) :
            store[k] = error_lines[k] /\ store[k] \in Range(orig_lines)
  /\ previewing_errors => pc \in {"errors_run", "done"}

\* An error preview redrawn after a separator change shows the one error
\* row of a file of several rows.
C29_Witness ==
  /\ Idle
  /\ pc = "errors_run"
  /\ hist.trigger.kind = "sep"
  /\ ~hist.failed
  /\ Len(orig_lines) > 1
  /\ error_lines = <<Len(orig_lines)>>
  /\ store = error_lines

\* A file was selected and the import has returned.
ImportOfFileEnded == pc = "done" /\ hist.load_error # "none"

\* C30: when the import of a selected file has returned, whichever way it
\* went, the parse data has been freed once and the preview, if it was
\* created, has been freed once; no free is made of an object that is not
\* alive, and both objects are alive wherever the import or the dialog uses
\* them.
C30_FreedExactlyOnce ==
  /\ ImportOfFileEnded =>
       /\ pd_state = "freed"
       /\ pv_state = IF hist.load_error = "open_err" THEN "none" ELSE "freed"
  /\ pd_state \in {"none", "alive", "freed"}
  /\ pv_state \in {"none", "alive", "freed"}
  /\ pc \in {"parse", "preview_new", "preview", "account", "errors_run"} =>
       pd_state = "alive"
  /\ pc \in {"preview", "account", "errors_run"} => pv_state = "alive"

\* The import handed over to a matcher session that was left empty.
C30_Witness ==
  /\ ImportOfFileEnded
  /\ importer_gui = <<Call("new", 0), Call("delete", 0)>>
  /\ pd_state = "freed"
  /\ pv_state = "freed"

\* C31: the transactions are built, and a matcher session is created, only
\* after the first preview was approved and the account prompt returned an
\* account; the prompt itself comes only after the approval; and when the
\* prompt returned no account, nothing is built and no session is created.
C31_BuildAfterApprovalAndAccount ==
  /\ hist.account # "none" => hist.ok_initial
  /\ hist.built => (hist.ok_initial /\ hist.account = "account")
  /\ transactions # <<>> => hist.built
  /\ importer_gui # <<>> => (hist.built /\ hist.account = "account")
  /\ hist.account = "NULL" =>
       /\ pc = "done"
       /\ ~hist.built
       /\ transactions = <<>>
       /\ importer_gui = <<>>

\* The first preview was approved and the account prompt was cancelled.
C31_Witness ==
  /\ pc = "done"
  /\ hist.ok_initial
  /\ hist.account = "NULL"
  /\ importer_gui = <<>>

\* The steps the user takes in an idle dialog: an edit of a column type,
\* "Cancel" in either preview, "OK" in either preview.
EditStep ==
  Idle /\ hist'.nevents = hist.nevents + 1 /\ hist'.trigger.kind = "coltype"

CancelErrorsStep ==
  Idle /\ pc = "errors_run" /\ ~hist.canceled_errors /\ hist'.canceled_errors

CancelStep == (Idle /\ pc = "preview" /\ pc' = "done") \/ CancelErrorsStep

OkStep ==
  /\ Idle
  /\ hist'.nevents = hist.nevents
  /\ \/ pc = "preview" /\ pc' = "account"
     \/ pc = "errors_run" /\ ~hist'.canceled_errors

\* C32: an edit of a column type and "Cancel" leave the column types of the
\* parse data as they are; of the steps the user takes in the idle dialog
\* only "OK" changes them; and the rebuild that follows a cancelled error
\* preview makes a transaction of an error row exactly when the row parses
\* under the column types the parse data held before the cancel.
C32_TypesWrittenOnlyByOk ==
  [][/\ (EditStep \/ CancelStep) => column_types' = column_types
     /\ (Idle /\ column_types' # column_types) => OkStep
     /\ CancelErrorsStep =>
          \A l \in Range(error_lines) :
            l \in Range(transactions') <=>
              /\ GNC_CSV_DATE \in Range(column_types)
              /\ GNC_CSV_AMOUNT \in Range(column_types)
              /\ file'[l] = <<date_format>>]_vars

\* An error preview was cancelled while it displayed column types that had
\* not been confirmed.
C32_Witness ==
  /\ pc = "done"
  /\ hist.canceled_errors
  /\ importer_gui # <<>>
  /\ ctstore # TypeStrings(column_types)
  /\ error_lines # <<>>

=============================================================================
